---- MODULE Spec2Model ----
(***************************************************************************)
(* Model of foreman_domain.py: ensure() converges one Foreman domain to    *)
(* the desired state through the python-foreman client.  One action per    *)
(* remote call of ensure(); every remote call may raise ForemanError.      *)
(***************************************************************************)
EXTENDS Integers, Sequences, FiniteSets, TLC

VARIABLES
    params,     \* module.params of the invocation (name, fullname, state, ...)
    remote,     \* the domain records held by Foreman (at most one per name)
    pc,         \* position of ensure()
    idx,        \* loop index of the reference lookup in progress
    acc,        \* ids collected by the reference lookup in progress
    data,       \* the dict `data` assembled by ensure()
    domain,     \* the local `domain` of ensure()
    calls,      \* remote calls issued by this invocation, in order
    outcome,    \* how the invocation ended: a (changed, domain) pair or fail_json
    run,        \* number of the invocation against this remote system
    before,     \* the remote record as it was when this invocation started
    prev        \* outcome of the previous invocation (Null before the first)

vars == <<params, remote, pc, idx, acc, data, domain, calls, outcome, run, before, prev>>

----------------------------------------------------------------------------
\* Bounds of the model
MaxOrgs == 2        \* longest list of organizations
MaxLocs == 1        \* longest list of locations
MaxRuns == 2        \* invocations in a row with the same params

\* Python None / a falsy search result
Null == [null |-> TRUE]
Truthy(x) == x # Null

NoName == "None"    \* fullname not given (None)
NoProxy == ""       \* dns_proxy not given

DomainName == "example.com"
DomainNames == {DomainName, "example.org"}
FullNames == {NoName, "Example domain", "Other domain"}
OrgNames == {"Torchlight", "Umbrella", "Nowhere"}
LocNames == {"Cardiff", "Atlantis"}
ProxyNames == {"proxy1", "proxyX"}

Range(s) == {s[i] : i \in DOMAIN s}

\* What the remote system holds: name -> id of the organizations, locations
\* and smart proxies that exist (a name outside the domain has zero matches).
OrgDir == [n \in {"Torchlight", "Umbrella"} |-> IF n = "Torchlight" THEN 1 ELSE 2]
LocDir == [n \in {"Cardiff"} |-> 11]
ProxyDir == [n \in {"proxy1"} |-> 21]
ServerIds == [none |-> 0, existing |-> 5, created |-> 6]
NoId == ServerIds.none              \* dns_id null on the server
ExistingId == ServerIds.existing    \* id of the domain already on the server
CreatedId == ServerIds.created      \* id the server gives to a created domain
DnsIds == {NoId} \cup Range(ProxyDir) \cup {22}

RECURSIVE SeqsUpTo(_, _)
SeqsUpTo(S, n) ==
    IF n = 0 THEN {<<>>}
    ELSE LET shorter == SeqsUpTo(S, n - 1)
         IN shorter \cup {Append(s, x) : s \in {t \in shorter : Len(t) = n - 1}, x \in S}

Params ==
    [name : {DomainName},
     fullname : FullNames,
     state : {"present", "absent"},
     dns_proxy : {NoProxy} \cup ProxyNames,
     organizations : SeqsUpTo(OrgNames, MaxOrgs),
     locations : SeqsUpTo(LocNames, MaxLocs)]

RemoteDomains ==
    [id : {ExistingId},
     name : DomainNames,
     fullname : FullNames,
     dns_id : DnsIds,
     organizations : SUBSET Range(OrgDir),
     locations : SUBSET Range(LocDir)]

----------------------------------------------------------------------------
\* dict.get(key, None) for the string-valued keys
Get(d, key) == IF key \in DOMAIN d THEN d[key] ELSE NoName

\* A remote call as logged: the client method, its arguments and whether it
\* answered (ok) or raised ForemanError
Call(op, arg, ok) == [op |-> op, arg |-> arg, ok |-> ok]

Mutating == {"create_domain", "update_domain", "delete_domain"}

Count(ops) == Cardinality({i \in DOMAIN calls : calls[i].op \in ops})

\* module.fail_json(msg=...): the invocation exits, nothing is returned
Failed(msg) == [failed |-> TRUE, msg |-> msg]
\* return changed, domain  (then module.exit_json)
Returned(changed, d) == [changed |-> changed, domain |-> d]

IsFailure(o) == "failed" \in DOMAIN o
IsReturn(o) == "changed" \in DOMAIN o

----------------------------------------------------------------------------
\* The remote system behind the client

\* search by name: the matching record as listed by the index call (a
\* projection of the record), or None
SearchResult(rs, name) ==
    IF \E r \in rs : r.name = name
    THEN LET r == CHOOSE r \in rs : r.name = name
         IN [id |-> r.id, name |-> r.name]
    ELSE Null

\* the full record with that id
FullRecord(rs, id) ==
    IF \E r \in rs : r.id = id THEN CHOOSE r \in rs : r.id = id ELSE Null

\* the record the server stores for a create with payload d
CreatedRecord(d) ==
    [id |-> CreatedId,
     name |-> d.name,
     fullname |-> Get(d, "fullname"),
     dns_id |-> IF "dns_id" \in DOMAIN d THEN d.dns_id ELSE NoId,
     organizations |-> IF "organization_ids" \in DOMAIN d
                       THEN Range(d.organization_ids) ELSE {},
     locations |-> IF "location_ids" \in DOMAIN d
                   THEN Range(d.location_ids) ELSE {}]

\* the record the server stores after an update of r with payload d:
\* attributes missing from the payload keep their value
UpdatedRecord(r, d) ==
    [id |-> r.id,
     name |-> IF "name" \in DOMAIN d THEN d.name ELSE r.name,
     fullname |-> IF "fullname" \in DOMAIN d THEN d.fullname ELSE r.fullname,
     dns_id |-> IF "dns_id" \in DOMAIN d THEN d.dns_id ELSE r.dns_id,
     organizations |-> IF "organization_ids" \in DOMAIN d
                       THEN Range(d.organization_ids) ELSE r.organizations,
     locations |-> IF "location_ids" \in DOMAIN d
                   THEN Range(d.location_ids) ELSE r.locations]

----------------------------------------------------------------------------
\* Pure helpers of the module

organizations_equal(d, r) ==
    IF "organization_ids" \in DOMAIN d
    THEN /\ "organizations" \in DOMAIN r
         /\ Range(d.organization_ids) = r.organizations
    ELSE TRUE

locations_equal(d, r) ==
    IF "location_ids" \in DOMAIN d
    THEN /\ "locations" \in DOMAIN r
         /\ Range(d.location_ids) = r.locations
    ELSE TRUE

comparable_keys == {"name", "fullname"}

\* domains_equal that also compares the resolved dns_id
domains_equal_with_dns(d, r, keys) ==
    /\ \A key \in keys : Get(d, key) = Get(r, key)
    /\ (IF "dns_id" \in DOMAIN d THEN d.dns_id ELSE NoId)
         = (IF "dns_id" \in DOMAIN r THEN r.dns_id ELSE NoId)
    /\ organizations_equal(d, r)
    /\ locations_equal(d, r)

domains_equal(d, r, keys) ==
    /\ \A key \in keys : Get(d, key) = Get(r, key)
    /\ organizations_equal(d, r)
    /\ locations_equal(d, r)

----------------------------------------------------------------------------
\* Control flow of ensure() between the remote calls (lines 158-169):
\* where ensure() goes next and what `data` holds there.

AtDecision(d) == [pc |-> "decide", data |-> d]

\* AfterLocations that forgets data['fullname'] = fullname
AfterLocations_without_fullname(d) ==
    IF params.dns_proxy # NoProxy THEN [pc |-> "dns", data |-> d]
    ELSE AtDecision(d)

AfterLocations(d) ==
    LET d2 == d @@ ("fullname" :> params.fullname)
    IN IF params.dns_proxy # NoProxy THEN [pc |-> "dns", data |-> d2]
       ELSE AtDecision(d2)

AfterOrganizations(d) ==
    IF params.locations # <<>> THEN [pc |-> "locs", data |-> d]
    ELSE AfterLocations(d)

AfterFetch(d) ==
    IF params.organizations # <<>> THEN [pc |-> "orgs", data |-> d]
    ELSE AfterOrganizations(d)

\* data[key] = the looked-up ids (lines 159, 162) or the first of them
\* (line 166), and on to the next statement
Store(key, ids) ==
    CASE key = "organization_ids" -> AfterOrganizations(data @@ (key :> ids))
      [] key = "location_ids" -> AfterLocations(data @@ (key :> ids))
      [] key = "dns_id" -> AtDecision(data @@ (key :> ids[1]))

Goto(next) ==
    /\ pc' = next.pc
    /\ data' = next.data
    /\ idx' = 1
    /\ acc' = <<>>

Issue(op, arg, ok) == calls' = Append(calls, Call(op, arg, ok))

Fail(msg) ==
    /\ pc' = "failed"
    /\ outcome' = Failed(msg)

Return(changed, d) ==
    /\ pc' = "done"
    /\ outcome' = Returned(changed, d)

----------------------------------------------------------------------------
\* State at the entry of ensure(): data = {'name': name}, nothing called yet
Init ==
    \E p \in Params, r \in {{}} \cup {{d} : d \in RemoteDomains} :
        /\ params = p
        /\ remote = r
        /\ pc = "search"
        /\ idx = 1
        /\ acc = <<>>
        /\ data = [name |-> p.name]
        /\ domain = Null
        /\ calls = <<>>
        /\ outcome = Null
        /\ run = 1
        /\ before = r
        /\ prev = Null

\* ForemanError handled by reporting "unchanged" instead of failing
ForemanError_returns(msg) ==
    /\ Return(FALSE, domain)
    /\ UNCHANGED <<params, remote, idx, acc, data, domain, run, before, prev>>

\* except ForemanError as e: module.fail_json(msg=...)
ForemanError(msg) ==
    /\ Fail(msg)
    /\ UNCHANGED <<params, remote, idx, acc, data, domain, run, before, prev>>

\* domain = theforeman.search_domain(data=data)
\* `answers` tells whether the remote call answers or raises ForemanError.
search_domain(answers) ==
    /\ pc = "search"
    /\ Issue("search_domain", [data |-> data], answers)
    /\ IF answers
       THEN LET found == SearchResult(remote, data.name)
            IN /\ domain' = found
               /\ IF Truthy(found)
                  THEN pc' = "get" /\ UNCHANGED <<data, idx, acc>>
                  ELSE Goto(AfterFetch(data))
               /\ UNCHANGED <<params, remote, outcome, run, before, prev>>
       ELSE ForemanError("Could not get domain")

\* get_domain whose answer is dropped: the search result is used as it is
get_domain_keeps_search_result(answers) ==
    /\ pc = "get"
    /\ Issue("get_domain", [id |-> domain.id], answers)
    /\ IF answers
       THEN /\ Goto(AfterFetch(data))
            /\ UNCHANGED <<params, remote, domain, outcome, run, before, prev>>
       ELSE ForemanError("Could not get domain")

\* if domain: domain = theforeman.get_domain(id=domain.get('id'))
get_domain(answers) ==
    /\ pc = "get"
    /\ Issue("get_domain", [id |-> domain.id], answers)
    /\ IF answers
       THEN /\ domain' = FullRecord(remote, domain.id)
            /\ Goto(AfterFetch(data))
            /\ UNCHANGED <<params, remote, outcome, run, before, prev>>
       ELSE ForemanError("Could not get domain")

\* get_resources that goes on with a null id when the search finds nothing
get_resources_skips_missing(op, specs, dir, key, answers) ==
    LET item == specs[idx]
    IN /\ Issue(op, [data |-> [name |-> item]], answers)
       /\ IF ~answers
          THEN ForemanError("Could not search resource")
          ELSE /\ LET ids == Append(acc, IF item \in DOMAIN dir THEN dir[item] ELSE NoId)
                  IN IF idx < Len(specs)
                     THEN /\ idx' = idx + 1
                          /\ acc' = ids
                          /\ UNCHANGED <<pc, data>>
                     ELSE Goto(Store(key, ids))
               /\ UNCHANGED <<params, remote, domain, outcome, run, before, prev>>

\* One turn of the lookup loop over the names `specs`: search the name in the
\* remote directory `dir`; a failed search or an empty result is fatal,
\* otherwise the id is collected and, after the last name, the ids are handed
\* to the caller, which stores them under `key`.
get_resources(op, specs, dir, key, answers) ==
    LET item == specs[idx]
    IN /\ Issue(op, [data |-> [name |-> item]], answers)
       /\ IF ~answers
          THEN ForemanError("Could not search resource")
          ELSE IF item \notin DOMAIN dir
          THEN /\ Fail("Could not find resource")
               /\ UNCHANGED <<params, remote, idx, acc, data, domain, run, before, prev>>
          ELSE /\ LET ids == Append(acc, dir[item])
                  IN IF idx < Len(specs)
                     THEN /\ idx' = idx + 1
                          /\ acc' = ids
                          /\ UNCHANGED <<pc, data>>
                     ELSE Goto(Store(key, ids))
               /\ UNCHANGED <<params, remote, domain, outcome, run, before, prev>>

\* data['organization_ids'] = get_organization_ids(module, theforeman, organizations)
get_organization_ids(answers) ==
    /\ pc = "orgs"
    /\ get_resources("search_organization", params.organizations, OrgDir,
                     "organization_ids", answers)

\* data['location_ids'] = get_location_ids(module, theforeman, locations)
get_location_ids(answers) ==
    /\ pc = "locs"
    /\ get_resources("search_location", params.locations, LocDir,
                     "location_ids", answers)

\* data['dns_id'] = get_resources('smart_proxies', [dns_proxy], theforeman)[0].get('id')
get_dns_id(answers) ==
    /\ pc = "dns"
    /\ get_resources("search_resource", <<params.dns_proxy>>, ProxyDir,
                     "dns_id", answers)

\* create_domain that tries a second time when the first call fails
create_domain_retry(answers) ==
    /\ pc = "decide"
    /\ ~Truthy(domain) /\ params.state = "present"
    /\ Issue("create_domain", [data |-> data], answers)
    /\ IF answers
       THEN /\ domain' = CreatedRecord(data)
            /\ remote' = remote \cup {domain'}
            /\ Return(TRUE, domain')
            /\ UNCHANGED <<params, data, idx, acc, run, before, prev>>
       ELSE IF Count({"create_domain"}) = 0
       THEN UNCHANGED <<params, remote, pc, idx, acc, data, domain, outcome, run, before, prev>>
       ELSE ForemanError("Could not create domain")

\* create_domain without the test of state: if not domain: create
create_domain_any_state(answers) ==
    /\ pc = "decide"
    /\ ~Truthy(domain)
    /\ Issue("create_domain", [data |-> data], answers)
    /\ IF answers
       THEN /\ domain' = CreatedRecord(data)
            /\ remote' = remote \cup {domain'}
            /\ Return(TRUE, domain')
            /\ UNCHANGED <<params, data, idx, acc, run, before, prev>>
       ELSE ForemanError("Could not create domain")

\* if not domain and state == 'present': create
create_domain(answers) ==
    /\ pc = "decide"
    /\ ~Truthy(domain) /\ params.state = "present"
    /\ Issue("create_domain", [data |-> data], answers)
    /\ IF answers
       THEN /\ domain' = CreatedRecord(data)
            /\ remote' = remote \cup {domain'}
            /\ Return(TRUE, domain')
            /\ UNCHANGED <<params, data, idx, acc, run, before, prev>>
       ELSE ForemanError("Could not create domain")

\* if domain: if state == 'absent': delete
delete_domain(answers) ==
    /\ pc = "decide"
    /\ Truthy(domain) /\ params.state = "absent"
    /\ Issue("delete_domain", [id |-> domain.id], answers)
    /\ IF answers
       THEN /\ domain' = FullRecord(remote, domain.id)
            /\ remote' = {r \in remote : r.id # domain.id}
            /\ Return(TRUE, domain')
            /\ UNCHANGED <<params, data, idx, acc, run, before, prev>>
       ELSE ForemanError("Could not delete domain")

\* update_domain tested before the state: a differing domain is updated
\* even when it should be absent
update_domain_any_state(answers) ==
    /\ pc = "decide"
    /\ Truthy(domain)
    /\ ~domains_equal(data, domain, comparable_keys)
    /\ Issue("update_domain", [id |-> domain.id, data |-> data], answers)
    /\ IF answers
       THEN /\ domain' = UpdatedRecord(FullRecord(remote, domain.id), data)
            /\ remote' = {r \in remote : r.id # domain.id} \cup {domain'}
            /\ Return(TRUE, domain')
            /\ UNCHANGED <<params, data, idx, acc, run, before, prev>>
       ELSE ForemanError("Could not update domain")

\* update_domain without the comparison: an existing domain is always updated
update_domain_always(answers) ==
    /\ pc = "decide"
    /\ Truthy(domain) /\ params.state # "absent"
    /\ Issue("update_domain", [id |-> domain.id, data |-> data], answers)
    /\ IF answers
       THEN /\ domain' = UpdatedRecord(FullRecord(remote, domain.id), data)
            /\ remote' = {r \in remote : r.id # domain.id} \cup {domain'}
            /\ Return(TRUE, domain')
            /\ UNCHANGED <<params, data, idx, acc, run, before, prev>>
       ELSE ForemanError("Could not update domain")

\* update_domain that sends the compared scalar fields only
update_domain_partial(answers) ==
    /\ pc = "decide"
    /\ Truthy(domain) /\ params.state # "absent"
    /\ ~domains_equal(data, domain, comparable_keys)
    /\ Issue("update_domain",
             [id |-> domain.id, data |-> [k \in comparable_keys |-> data[k]]], answers)
    /\ IF answers
       THEN /\ domain' = UpdatedRecord(FullRecord(remote, domain.id), data)
            /\ remote' = {r \in remote : r.id # domain.id} \cup {domain'}
            /\ Return(TRUE, domain')
            /\ UNCHANGED <<params, data, idx, acc, run, before, prev>>
       ELSE ForemanError("Could not update domain")

\* if domain: ... if not domains_equal(data, domain, comparable_keys): update
update_domain(answers) ==
    /\ pc = "decide"
    /\ Truthy(domain) /\ params.state # "absent"
    /\ ~domains_equal(data, domain, comparable_keys)
    /\ Issue("update_domain", [id |-> domain.id, data |-> data], answers)
    /\ IF answers
       THEN /\ domain' = UpdatedRecord(FullRecord(remote, domain.id), data)
            /\ remote' = {r \in remote : r.id # domain.id} \cup {domain'}
            /\ Return(TRUE, domain')
            /\ UNCHANGED <<params, data, idx, acc, run, before, prev>>
       ELSE ForemanError("Could not update domain")

\* return False, domain
return_unchanged ==
    /\ pc = "decide"
    /\ ~(~Truthy(domain) /\ params.state = "present")
    /\ ~(Truthy(domain) /\ params.state = "absent")
    /\ ~(Truthy(domain) /\ ~domains_equal(data, domain, comparable_keys))
    /\ Return(FALSE, domain)
    /\ UNCHANGED <<params, remote, data, domain, idx, acc, calls, run, before, prev>>

\* changed, domain = ensure(module); module.exit_json(...): the module exits.
\* The module is then invoked again with the same parameters against the
\* remote system as it is now.
main ==
    /\ pc = "done"
    /\ run < MaxRuns
    /\ pc' = "search"
    /\ idx' = 1
    /\ acc' = <<>>
    /\ data' = [name |-> params.name]
    /\ domain' = Null
    /\ calls' = <<>>
    /\ outcome' = Null
    /\ run' = run + 1
    /\ before' = remote
    /\ prev' = outcome
    /\ UNCHANGED <<params, remote>>

\* A step of ensure() whose remote call (if any) answers or not
Step(answers) ==
    \/ search_domain(answers)
    \/ get_domain(answers)
    \/ get_organization_ids(answers)
    \/ get_location_ids(answers)
    \/ get_dns_id(answers)
    \/ create_domain(answers)
    \/ delete_domain(answers)
    \/ update_domain(answers)

Next ==
    \/ \E answers \in BOOLEAN : Step(answers)
    \/ return_unchanged
    \/ main

\* Any remote call may raise ForemanError
Spec == Init /\ [][Next]_vars

NextReliable ==
    \/ Step(TRUE)
    \/ return_unchanged
    \/ main

\* Every remote call answers
SpecReliable == Init /\ [][NextReliable]_vars

TypeOK ==
    /\ params \in Params
    /\ \A r1, r2 \in remote : r1.name = r2.name => r1 = r2
    /\ Cardinality(remote) <= Cardinality(DomainNames)
    /\ pc \in {"search", "get", "orgs", "locs", "dns", "decide", "done", "failed"}
    /\ run \in 1..MaxRuns

----------------------------------------------------------------------------
\* Vocabulary of the properties

Finished == pc \in {"done", "failed"}

\* a domain of the desired name existed when the invocation started
HasDomain == \E r \in before : r.name = params.name
Existing == CHOOSE r \in before : r.name = params.name

Resolves(names, dir) == \A i \in DOMAIN names : names[i] \in DOMAIN dir
OrgsResolve == Resolves(params.organizations, OrgDir)
LocsResolve == Resolves(params.locations, LocDir)
ProxyResolves == params.dns_proxy = NoProxy \/ params.dns_proxy \in DOMAIN ProxyDir
AllResolve == OrgsResolve /\ LocsResolve /\ ProxyResolves

IdsOf(names, dir) == [i \in DOMAIN names |-> dir[names[i]]]
IdSet(names, dir) == {dir[names[i]] : i \in DOMAIN names}

NoCallFailed == \A i \in DOMAIN calls : calls[i].ok
CallsOf(ops) == {i \in DOMAIN calls : calls[i].op \in ops}
Lookups == {"search_organization", "search_location", "search_resource"}

\* the field set a create or an update carries for the desired state
PayloadKeys ==
    {"name", "fullname"}
    \cup (IF params.organizations # <<>> THEN {"organization_ids"} ELSE {})
    \cup (IF params.locations # <<>> THEN {"location_ids"} ELSE {})
    \cup (IF params.dns_proxy # NoProxy THEN {"dns_id"} ELSE {})

ExpectedPayload ==
    [k \in PayloadKeys |->
        CASE k = "name" -> params.name
          [] k = "fullname" -> params.fullname
          [] k = "organization_ids" -> IdsOf(params.organizations, OrgDir)
          [] k = "location_ids" -> IdsOf(params.locations, LocDir)
          [] k = "dns_id" -> ProxyDir[params.dns_proxy]]

\* the compared fields of the existing record equal the desired ones
SameName == Existing.name = params.name
SameFullname == Existing.fullname = params.fullname
SameOrgsAndLocs ==
    /\ OrgsResolve /\ Existing.organizations = IdSet(params.organizations, OrgDir)
    /\ LocsResolve /\ Existing.locations = IdSet(params.locations, LocDir)
SameDns ==
    \/ params.dns_proxy = NoProxy
    \/ /\ params.dns_proxy \in DOMAIN ProxyDir
       /\ Existing.dns_id = ProxyDir[params.dns_proxy]

----------------------------------------------------------------------------
\* C1: in every invocation, also one in which a remote call fails, at most
\* one mutating remote call (create, update or delete) is issued.
C1_AtMostOneMutatingCall == Count(Mutating) <= 1

C1_Witness ==
    /\ pc = "failed"
    /\ Count(Mutating) = 1
    /\ ~calls[Len(calls)].ok

\* C2 as stated: with state=absent and no remote domain of that name,
\* whatever organizations, locations and dns_proxy are given, ensure returns
\* (changed=false, no record) and issues no mutating call.
C2_AsStated ==
    (Finished /\ params.state = "absent" /\ ~HasDomain)
        => (outcome = Returned(FALSE, Null) /\ Count(Mutating) = 0)

\* C2 as amended: with state=absent and no remote domain of that name no
\* mutating call is issued, and when every given organization, location and
\* dns_proxy name resolves and no remote call fails, ensure returns
\* (changed=false, no record).
C2_AbsentAndMissing ==
    (params.state = "absent" /\ ~HasDomain)
        => /\ Count(Mutating) = 0
           /\ (Finished /\ AllResolve /\ NoCallFailed)
                  => outcome = Returned(FALSE, Null)

C2_Witness ==
    /\ pc = "done"
    /\ params.state = "absent" /\ ~HasDomain
    /\ params.organizations # <<>> /\ params.dns_proxy # NoProxy
    /\ outcome = Returned(FALSE, Null)

\* the one delete of the existing record, nothing else, result returned
DeletedExisting ==
    /\ Count({"delete_domain"}) = 1
    /\ \A i \in CallsOf({"delete_domain"}) : calls[i].arg = [id |-> Existing.id]
    /\ Count({"create_domain", "update_domain"}) = 0
    /\ outcome = Returned(TRUE, Existing)

\* C3 as stated: for all desired states with state=absent and an existing
\* remote domain of that name, ensure issues exactly one delete_domain with
\* the id of the found record, no create or update, and returns
\* (changed=true, deletion result).
C3_AsStated ==
    (Finished /\ params.state = "absent" /\ HasDomain) => DeletedExisting

\* C3 as amended: with state=absent and an existing remote domain of that
\* name no create or update is issued, and when every given organization,
\* location and dns_proxy name resolves and no remote call fails, ensure
\* issues exactly one delete_domain with the id of the found record and
\* returns (changed=true, deletion result).
C3_AbsentAndExisting ==
    (params.state = "absent" /\ HasDomain)
        => /\ Count({"create_domain", "update_domain"}) = 0
           /\ (Finished /\ AllResolve /\ NoCallFailed) => DeletedExisting

C3_Witness ==
    /\ pc = "done"
    /\ params.state = "absent" /\ HasDomain
    /\ ~SameFullname
    /\ calls[Len(calls)].op = "delete_domain"

\* C4: with state=present, no remote domain of that name, every referenced
\* name resolving and every remote call answering, ensure issues exactly one
\* create_domain whose payload is the assembled field set, no update or
\* delete, and returns (changed=true, the created record).
C4_PresentAndMissing ==
    (Finished /\ params.state = "present" /\ ~HasDomain /\ AllResolve /\ NoCallFailed)
        => /\ Count({"create_domain"}) = 1
           /\ \A i \in CallsOf({"create_domain"}) :
                  calls[i].arg = [data |-> ExpectedPayload]
           /\ Count({"update_domain", "delete_domain"}) = 0
           /\ IsReturn(outcome)
           /\ outcome.changed
           /\ outcome.domain \in remote
           /\ outcome.domain.id = CreatedId
           /\ outcome.domain.name = params.name

C4_Witness ==
    /\ pc = "done"
    /\ params.state = "present" /\ ~HasDomain
    /\ Len(params.organizations) = 2
    /\ params.organizations[1] # params.organizations[2]
    /\ params.locations # <<>>
    /\ params.dns_proxy # NoProxy
    /\ calls[Len(calls)].op = "create_domain"

\* C5 as stated: with state=present and an existing remote domain whose name,
\* fullname, organization ids and location ids equal the desired ones, ensure
\* issues no mutating call and returns (changed=false, existing record),
\* whatever the record's dns_id and the desired dns_proxy are.
C5_AsStated ==
    (Finished /\ params.state = "present" /\ HasDomain)
        => ((SameName /\ SameFullname /\ SameOrgsAndLocs)
               => (Count(Mutating) = 0 /\ outcome = Returned(FALSE, Existing)))

\* C5 as amended: with state=present and an existing remote domain whose
\* name, fullname, organization ids and location ids equal the desired ones,
\* ensure issues no mutating call whatever the record's dns_id and the desired
\* dns_proxy are, and it returns (changed=false, existing record) when the
\* desired dns_proxy, if given, resolves and no remote call fails.
C5_PresentAndEqual ==
    (params.state = "present" /\ HasDomain)
        => ((SameName /\ SameFullname /\ SameOrgsAndLocs)
               => /\ Count(Mutating) = 0
                  /\ (Finished /\ ProxyResolves /\ NoCallFailed)
                         => outcome = Returned(FALSE, Existing))

C5_Witness ==
    /\ pc = "done"
    /\ params.state = "present" /\ HasDomain
    /\ SameFullname /\ SameOrgsAndLocs
    /\ params.organizations # <<>>
    /\ params.dns_proxy # NoProxy /\ ~SameDns
    /\ outcome = Returned(FALSE, Existing)

\* C6: with state=present and an existing remote domain that differs from the
\* desired state in fullname only, ensure issues exactly one update_domain by
\* the record's id whose payload is the full assembled field set (what a
\* create would carry), and returns (changed=true, the updated record).
\* The desired dns_proxy, when given, names an existing proxy; its id may or
\* may not be the record's dns_id, which is not compared.
C6_PresentAndFullnameDiffers ==
    (Finished /\ params.state = "present" /\ HasDomain)
        => ((SameName /\ ~SameFullname /\ SameOrgsAndLocs /\ ProxyResolves)
               => /\ Count({"update_domain"}) = 1
                  /\ \A i \in CallsOf({"update_domain"}) :
                         calls[i].arg = [id |-> Existing.id, data |-> ExpectedPayload]
                  /\ Count({"create_domain", "delete_domain"}) = 0
                  /\ IsReturn(outcome)
                  /\ outcome.changed
                  /\ outcome.domain \in remote
                  /\ outcome.domain.id = Existing.id
                  /\ outcome.domain.fullname = params.fullname)

C6_Witness ==
    /\ pc = "done"
    /\ params.state = "present" /\ HasDomain
    /\ ~SameFullname /\ SameOrgsAndLocs /\ SameDns
    /\ params.organizations # <<>>
    /\ params.dns_proxy # NoProxy
    /\ calls[Len(calls)].op = "update_domain"

\* C7: if a referenced organization, location or dns proxy name has no match,
\* the invocation never returns a (changed, result) pair, issues no create,
\* update or delete, and leaves the remote state as it was; for state=present
\* and state=absent alike.
C7_UnresolvedReference ==
    ~AllResolve
        => /\ pc # "done"
           /\ ~IsReturn(outcome)
           /\ Count(Mutating) = 0
           /\ remote = before
           /\ Finished => IsFailure(outcome)

C7_Witness ==
    /\ pc = "failed"
    /\ ~ProxyResolves
    /\ params.state = "absent" /\ HasDomain
    /\ NoCallFailed
    /\ outcome = Failed("Could not find resource")

\* C8: when the first invocation succeeded, a second invocation with the same
\* desired state against the remote state the first one left returns
\* changed=false and issues no mutating call.
C8_Idempotence ==
    run > 1
        => /\ Count(Mutating) = 0
           /\ pc # "failed"
           /\ pc = "done" => (IsReturn(outcome) /\ ~outcome.changed)

C8_Witness ==
    /\ run = 2
    /\ pc = "done"
    /\ IsReturn(prev) /\ prev.changed
    /\ params.state = "present"
    /\ params.organizations # <<>>

\* C9: when a remote call fails the invocation ends in a failure: the failed
\* call is the last call issued (no retry, no further call) and no
\* (changed, result) pair is returned.
C9_FailureIsFatal ==
    \A i \in DOMAIN calls :
        ~calls[i].ok => /\ i = Len(calls)
                        /\ pc = "failed"
                        /\ IsFailure(outcome)

C9_Witness ==
    /\ pc = "failed"
    /\ Len(calls) > 3
    /\ ~calls[Len(calls)].ok
    /\ calls[Len(calls)].op \in Mutating

\* C10: the domain is searched by name exactly once; get_domain is issued if
\* and only if the search found a record, with that record's id; it and every
\* reference lookup precede any mutating call; the record compared, deleted,
\* updated or returned unchanged is the fully fetched record.
C10_FetchThenDecide ==
    /\ Count({"search_domain"}) = (IF pc = "search" THEN 0 ELSE 1)
    /\ pc # "search"
          => /\ calls[1].op = "search_domain"
             /\ calls[1].arg = [data |-> [name |-> params.name]]
    /\ pc \notin {"search", "get"}
          => Count({"get_domain"}) = (IF calls[1].ok /\ HasDomain THEN 1 ELSE 0)
    /\ \A i \in CallsOf({"get_domain"}) : calls[i].arg = [id |-> Existing.id]
    /\ \A i \in CallsOf({"get_domain"} \cup Lookups), j \in CallsOf(Mutating) : i < j
    /\ pc = "decide" => domain = (IF HasDomain THEN Existing ELSE Null)
    /\ \A j \in CallsOf({"delete_domain", "update_domain"}) :
           calls[j].arg.id = Existing.id
    /\ (pc = "done" /\ ~outcome.changed)
          => outcome.domain = (IF HasDomain THEN Existing ELSE Null)

C10_Witness ==
    /\ pc = "done"
    /\ ~outcome.changed
    /\ HasDomain
    /\ outcome.domain = Existing
    /\ Len(calls) > 3

====
